---------------------------- MODULE Spec2Model ----------------------------
(***************************************************************************)
(* Per-frame motion and collision core of SpaceWars (src/src/main.rs).     *)
(*                                                                         *)
(* Number representation.  The program computes in f32; the model computes *)
(* in fixed point with integers, every division truncating toward zero:    *)
(*   time         deciseconds           (delta_seconds() = dt / 10)        *)
(*   length       tenths of a unit      (65.0 units = 650)                 *)
(*   speed        units per second      (50.0 * delta = 5 * dt, exact)     *)
(*   angle        1/10000 radian                                           *)
(*   unit vector  components times 10000                                   *)
(* A normalised vector is rounded so that its length never exceeds one, so *)
(* that no bound on a length is broken by the rounding of the model.       *)
(***************************************************************************)
EXTENDS Integers, Sequences, FiniteSets

\* ------------------------------------------------------------------ bounds
\* Number of frames a behaviour of the model runs.
MaxFrames == 3

\* Frame delta times offered by the clock, in deciseconds.
DT == {1, 2}

\* The numbers of entities the effect query of update_rocket_status can match
\* in a frame: none, the one effect entity of setup, or more than one.
EffectCounts == {0, 1, 2}

\* ------------------------------------------------------------ fixed point
\* One, for unit vectors and for the coefficients of the series below.
Unit == 10000

\* pi in 1/10000 radian.
Pi == 31416

HalfPi == Pi \div 2

TwoPi == 2 * Pi

Abs(a) == IF a < 0 THEN -a ELSE a

\* Division truncating toward zero, as the conversion of a float does.
TDiv(a, b) == IF a >= 0 THEN a \div b ELSE -((-a) \div b)

\* The least s in lo..hi with s * s >= n.
RECURSIVE CeilSqrtIn(_, _, _)
CeilSqrtIn(n, lo, hi) ==
    IF lo >= hi THEN lo
    ELSE LET mid == (lo + hi) \div 2
         IN  IF mid * mid >= n THEN CeilSqrtIn(n, lo, mid)
                               ELSE CeilSqrtIn(n, mid + 1, hi)

\* Square root rounded up; n < 2^31.
CeilSqrt(n) == CeilSqrtIn(n, 0, 46340)

Dot(u, v) == u[1] * v[1] + u[2] * v[2]

\* Vec2::length_squared.
LengthSquared(v) == Dot(v, v)

\* Vec2::normalize, the components times Unit.
Normalize(v) ==
    LET len == CeilSqrt(LengthSquared(v))
    IN  IF len = 0 THEN <<0, 0>>
        ELSE <<TDiv(v[1] * Unit, len), TDiv(v[2] * Unit, len)>>

\* A unit vector n times the scalar s.
Scaled(n, s) == <<TDiv(n[1] * s, Unit), TDiv(n[2] * s, Unit)>>

\* f32::to_radians of a whole number of degrees, in 1/10000 radian.
ToRadians(deg) == TDiv(deg * 1745329, Unit)

\* Angle brought into (-Pi, Pi].
Reduce(a) == LET m == a % TwoPi IN IF m > Pi THEN m - TwoPi ELSE m

\* sin on [-HalfPi, HalfPi], times Unit (Taylor series in Horner form).
SinQ(x) ==
    LET x2 == (x * x) \div Unit
        t4 == Unit - x2 \div 72
        t3 == Unit - ((x2 * t4) \div Unit) \div 42
        t2 == Unit - ((x2 * t3) \div Unit) \div 20
        t1 == Unit - ((x2 * t2) \div Unit) \div 6
    IN  TDiv(x * t1, Unit)

\* cos on [-HalfPi, HalfPi], times Unit.
CosQ(x) ==
    LET x2 == (x * x) \div Unit
        t4 == Unit - x2 \div 56
        t3 == Unit - ((x2 * t4) \div Unit) \div 30
        t2 == Unit - ((x2 * t3) \div Unit) \div 12
        t1 == Unit - ((x2 * t2) \div Unit) \div 2
    IN  t1

Sin(a) ==
    LET r == Reduce(a)
    IN  IF r > HalfPi THEN SinQ(Pi - r)
        ELSE IF r < -HalfPi THEN SinQ(-Pi - r)
        ELSE SinQ(r)

Cos(a) ==
    LET r == Reduce(a)
    IN  IF r > HalfPi THEN -CosQ(Pi - r)
        ELSE IF r < -HalfPi THEN -CosQ(-Pi - r)
        ELSE CosQ(r)

\* transform.rotation * Vec3::Y for a rotation about z: (-sin, cos).
Heading(rotation) == <<-Sin(rotation), Cos(rotation)>>


\* ------------------------------------------------------- program constants
\* G_FORCE of gravitational_pull.
G_FORCE == 125000000

\* The cutoff of gravitational_pull, 65.0 units, in tenths of a unit.
CutoffRadius == 650

\* The margin added to radius_collision in the sun test, 30. units.
SunMargin == 300

\* Window resolution (980. x 735.), in tenths of a unit.
WindowWidth == 9800

WindowHeight == 7350

\* Rocket::max_speed and Rocket::radius_collision, set by add_rockets in
\* rocket.rs.  radius_collision is the 20 units of the specification's
\* scenario; max_speed is taken as 25 units per second, a limit that thrust
\* reaches within the frames explored.
MaxSpeed == 25

RadiusCollision == 200

\* ------------------------------------------------------------ the entities
Craft == {1, 2}

\* Rocket::controls: the keys bound to each craft.
Controls ==
    [c \in Craft |->
        IF c = 1
        THEN [accelerate |-> "KeyW", rotate_left |-> "KeyA", rotate_right |-> "KeyD"]
        ELSE [accelerate |-> "ArrowUp", rotate_left |-> "ArrowLeft",
              rotate_right |-> "ArrowRight"]]

\* The sets of keys the input layer reports as pressed in a frame.
KeySets ==
    { {},
      {"KeyW"},
      {"ArrowUp"},
      {"KeyW", "ArrowUp"},
      {"KeyW", "KeyA", "ArrowRight"},
      {"KeyA", "KeyD", "ArrowLeft", "ArrowUp"} }

\* Starting positions of the two craft, in tenths of a unit.
Placements ==
    { <<<<0, -510>>, <<200, -470>>>>,
      <<<<0, -510>>, <<199, -490>>>>,
      <<<<0, -600>>, <<600, 800>>>>,
      <<<<0, 700>>, <<0, 700>>>> }

\* The Update schedule of main: the systems in the order of the chain.
Chain ==
    << "check_bullet_coll", "spawn_bullet", "update_rocket_status",
       "clip_rockets", "gravitational_pull", "handle_bullet_movement" >>

VARIABLES
    rockets,     \* craft id -> Rocket and Transform components
    alive,       \* the craft entities that exist in the world
    keys,        \* ButtonInput<KeyCode>: the keys pressed in this frame
    dt,          \* Time::delta_seconds of this frame, in deciseconds
    frame,       \* number of frames begun
    pc,          \* 0 between frames, else the index in Chain of the next system
    effects,     \* number of entities the effect query matches in this frame
    effectPos,   \* translation of the particle-effect entity
    triggers,    \* the calls of initializers.reset() of this frame, in order
    cmds,        \* the despawn commands update_rocket_status queued this frame
    moved,       \* the craft handle_rocket_movement was called on this frame
    tested,      \* the translations the collision tests of this frame read
    gravity,     \* the acceleration gravitational_pull computed for each craft
    start,       \* the rockets as they were when the frame began
    ran          \* the systems run so far in this frame, in order

vars == << rockets, alive, keys, dt, frame, pc, effects, effectPos, triggers, cmds,
           moved, tested, gravity, start, ran >>

Range(s) == { s[i] : i \in DOMAIN s }

Add(u, v) == <<u[1] + v[1], u[2] + v[2]>>

\* ----------------------------------------------------------- pure helpers
\* Clamp without the lower limit.
ClampUpperOnly(x, lo, hi) == IF x > hi THEN hi ELSE x

\* f32::clamp.
Clamp(x, lo, hi) == IF x < lo THEN lo ELSE IF x > hi THEN hi ELSE x

\* check_collision: distance between the two translations < radius.
check_collision(p1, p2, radius) ==
    LengthSquared(<<p1[1] - p2[1], p1[2] - p2[2]>>) < radius * radius

\* check_sun_collision: distance to the origin < radius.
check_sun_collision(p, radius) == LengthSquared(p) < radius * radius

\* gravitational_pull: `distance < 65.0`, the craft is skipped.
InsideCutoff(p) == LengthSquared(p) < CutoffRadius * CutoffRadius

\* Acceleration with the direction taken from the sun to the craft.
AccelerationAway(p) ==
    LET direction == <<p[1] - 0, p[2] - 0>>
        force     == G_FORCE \div (LengthSquared(direction) \div 100)
    IN  Scaled(Normalize(direction), force)

\* gravitational_pull: direction.normalize() * force, in units per second^2.
Acceleration(p) ==
    LET direction == <<0 - p[1], 0 - p[2]>>
        force     == G_FORCE \div (LengthSquared(direction) \div 100)
    IN  Scaled(Normalize(direction), force)

\* The body of the loop of gravitational_pull for one craft.
GravityStep(r, d) ==
    IF InsideCutoff(r.pos) THEN r
    ELSE LET a  == Acceleration(r.pos)
             v1 == Add(r.velocity, <<TDiv(a[1] * d, 10), TDiv(a[2] * d, 10)>>)
             v2 == IF LengthSquared(v1) > r.max_speed * r.max_speed
                   THEN Scaled(Normalize(v1), r.max_speed)
                   ELSE v1
         IN  [r EXCEPT !.velocity = v2,
                       !.pos = Add(r.pos, <<v2[1] * d, v2[2] * d>>)]

\* handle_rocket_movement: the scalar speed after the thrust step.
SpeedStep(r, ks, d) ==
    IF r.controls.accelerate \in ks
    THEN IF r.speed < r.max_speed THEN r.speed + TDiv(50 * d, 10) ELSE r.speed
    ELSE IF r.speed > 0 THEN r.speed - TDiv(50 * d, 10) ELSE r.speed

\* handle_rocket_movement: rotation_speed after the rotation step.
RotationSpeedStep(r, ks, d) ==
    LET left  == IF r.controls.rotate_left \in ks THEN 4 ELSE 0
        right == IF r.controls.rotate_right \in ks THEN 4 ELSE 0
        rotation_input        == left - right
        max_rotation_speed    == ToRadians(70)
        rotation_acceleration == ToRadians(TDiv(50 * d, 10))
    IN  Clamp(r.rotation_speed + rotation_input * rotation_acceleration,
              -max_rotation_speed, max_rotation_speed)

\* handle_rocket_movement.
handle_rocket_movement(r, ks, d) ==
    LET speed          == SpeedStep(r, ks, d)
        rotation_speed == RotationSpeedStep(r, ks, d)
        rotation       == r.rotation + TDiv(rotation_speed * d, 10)
        velocity       == Scaled(Heading(rotation), speed)
    IN  [r EXCEPT !.speed = speed,
                  !.rotation_speed = rotation_speed,
                  !.rotation = rotation,
                  !.velocity = velocity,
                  !.pos = Add(r.pos, <<velocity[1] * d, velocity[2] * d>>)]

\* The entities of a query in iteration order (the order they were spawned).
RECURSIVE QueryOrder(_)
QueryOrder(S) ==
    IF S = {} THEN <<>>
    ELSE LET m == CHOOSE x \in S : \A y \in S : x <= y
         IN  <<m>> \o QueryOrder(S \ {m})

\* CollisionTriggers with the three tests chained by else, the first positive
\* one taking precedence.
CollisionTriggersPriority(p1, p2, sun1, sun2, pair) ==
    IF sun1 THEN << [pos |-> p1, line |-> 299] >>
    ELSE IF sun2 THEN << [pos |-> p2, line |-> 311] >>
    ELSE IF pair THEN << [pos |-> p1, line |-> 322], [pos |-> p2, line |-> 331] >>
    ELSE <<>>

\* update_rocket_status: the calls of initializers.reset() that follow from the
\* three tests, each with the translation the effect carries at the call and
\* the source line of the call.
CollisionTriggers(p1, p2, sun1, sun2, pair) ==
    (IF sun1 THEN << [pos |-> p1, line |-> 299] >> ELSE <<>>)
    \o (IF sun2 THEN << [pos |-> p2, line |-> 311] >> ELSE <<>>)
    \o (IF pair THEN << [pos |-> p1, line |-> 322], [pos |-> p2, line |-> 331] >>
                ELSE <<>>)

\* DespawnCommands with the craft-craft branch despawning the first craft only.
DespawnCommandsFirstOnly(q, sun1, sun2, pair) ==
    (IF sun1 THEN << q[1] >> ELSE <<>>)
    \o (IF sun2 THEN << q[2] >> ELSE <<>>)
    \o (IF pair THEN << q[1] >> ELSE <<>>)

\* update_rocket_status: the despawn commands queued by the three tests, in
\* order; q is the query in iteration order.
DespawnCommands(q, sun1, sun2, pair) ==
    (IF sun1 THEN << q[1] >> ELSE <<>>)
    \o (IF sun2 THEN << q[2] >> ELSE <<>>)
    \o (IF pair THEN q ELSE <<>>)

\* ---------------------------------------------------------------- the state
\* add_rockets (rocket.rs): two craft at rest.
NewRocket(c, p) ==
    [ pos              |-> p,
      rotation         |-> 0,
      velocity         |-> <<0, 0>>,
      speed            |-> 0,
      rotation_speed   |-> 0,
      max_speed        |-> MaxSpeed,
      radius_collision |-> RadiusCollision,
      controls         |-> Controls[c] ]

Init ==
    /\ \E pl \in Placements : rockets = [c \in Craft |-> NewRocket(c, pl[c])]
    /\ alive = Craft
    /\ keys = {}
    /\ dt = 1
    /\ frame = 0
    /\ pc = 0
    /\ effects = 1
    /\ effectPos = <<0, 0>>
    /\ triggers = <<>>
    /\ cmds = <<>>
    /\ moved = {}
    /\ tested = <<>>
    /\ gravity = [c \in Craft |-> <<0, 0>>]
    /\ start = rockets
    /\ ran = <<>>

\* The system pc points at is `name`; it has run when the step is taken.
Runs(name) ==
    /\ pc \in DOMAIN Chain
    /\ Chain[pc] = name
    /\ pc' = IF pc = Len(Chain) THEN 0 ELSE pc + 1
    /\ ran' = Append(ran, name)

\* A frame begins: the clock and the input layer are polled (before Update).
\* What the effect query will match is decided outside main.rs (the particle
\* library completes the entity of setup, other modules may spawn effects).
Tick ==
    /\ pc = 0
    /\ frame < MaxFrames
    /\ frame' = frame + 1
    /\ \E d \in DT : dt' = d
    /\ \E ks \in KeySets : keys' = ks
    /\ \E n \in EffectCounts : effects' = n
    /\ pc' = 1
    /\ start' = rockets
    /\ triggers' = <<>>
    /\ cmds' = <<>>
    /\ moved' = {}
    /\ tested' = <<>>
    /\ gravity' = [c \in Craft |-> <<0, 0>>]
    /\ ran' = <<>>
    /\ UNCHANGED << rockets, alive, effectPos >>

\* The systems of bullet.rs: they read and write bullets only.
CheckBulletColl ==
    /\ Runs("check_bullet_coll")
    /\ UNCHANGED << rockets, alive, keys, dt, frame, effects, effectPos, triggers, cmds,
                    moved, tested, gravity, start >>

SpawnBullet ==
    /\ Runs("spawn_bullet")
    /\ UNCHANGED << rockets, alive, keys, dt, frame, effects, effectPos, triggers, cmds,
                    moved, tested, gravity, start >>

HandleBulletMovement ==
    /\ Runs("handle_bullet_movement")
    /\ UNCHANGED << rockets, alive, keys, dt, frame, effects, effectPos, triggers, cmds,
                    moved, tested, gravity, start >>

\* update_rocket_status.  When the effect query does not match exactly one
\* entity, get_single_mut fails and the system returns (lines 279-282) before
\* the tests and before the movement loop.  Otherwise the three tests run, and
\* then the movement loop: the despawn commands are deferred, they are applied
\* when the system has returned, so the loop still visits every entity of the
\* query.
UpdateRocketStatus ==
    /\ Runs("update_rocket_status")
    /\ IF effects # 1
       THEN UNCHANGED << rockets, alive, effectPos, triggers, cmds, moved, tested >>
       ELSE LET q     == QueryOrder(alive)
                two   == Len(q) > 1
                p1    == rockets[q[1]].pos
                p2    == rockets[q[2]].pos
                sun1  == two /\ check_sun_collision(p1, rockets[q[1]].radius_collision + SunMargin)
                sun2  == two /\ check_sun_collision(p2, rockets[q[2]].radius_collision + SunMargin)
                pair  == two /\ check_collision(p1, p2, rockets[q[1]].radius_collision)
                trig  == IF two THEN CollisionTriggers(p1, p2, sun1, sun2, pair) ELSE <<>>
                queue == IF two THEN DespawnCommands(q, sun1, sun2, pair) ELSE <<>>
            IN  /\ tested' = IF two THEN [c \in {q[1], q[2]} |-> rockets[c].pos] ELSE <<>>
                /\ triggers' = trig
                /\ effectPos' = IF trig = <<>> THEN effectPos ELSE trig[Len(trig)].pos
                /\ cmds' = queue
                /\ moved' = alive
                /\ rockets' = [c \in Craft |->
                                 IF c \in alive
                                 THEN handle_rocket_movement(rockets[c], keys, dt)
                                 ELSE rockets[c]]
                /\ alive' = alive \ Range(queue)
    /\ UNCHANGED << keys, dt, frame, effects, gravity, start >>

\* One coordinate wrapped to the opposite edge of the window.
Wrap(x, extent) ==
    IF x > extent \div 2 THEN x - extent
    ELSE IF x < -(extent \div 2) THEN x + extent
    ELSE x

\* clip_rockets (rocket.rs): a craft that leaves the window re-enters it.
ClipRockets ==
    /\ Runs("clip_rockets")
    /\ rockets' = [c \in Craft |->
                     IF c \in alive
                     THEN [rockets[c] EXCEPT
                             !.pos = << Wrap(rockets[c].pos[1], WindowWidth),
                                        Wrap(rockets[c].pos[2], WindowHeight) >>]
                     ELSE rockets[c]]
    /\ UNCHANGED << alive, keys, dt, frame, effects, effectPos, triggers, cmds, moved,
                    tested, gravity, start >>

\* gravitational_pull.
GravitationalPull ==
    /\ Runs("gravitational_pull")
    /\ rockets' = [c \in Craft |->
                     IF c \in alive THEN GravityStep(rockets[c], dt) ELSE rockets[c]]
    /\ gravity' = [c \in Craft |->
                     IF c \in alive /\ ~InsideCutoff(rockets[c].pos)
                     THEN Acceleration(rockets[c].pos)
                     ELSE <<0, 0>>]
    /\ UNCHANGED << alive, keys, dt, frame, effects, effectPos, triggers, cmds, moved,
                    tested, start >>

Next ==
    \/ Tick
    \/ CheckBulletColl
    \/ SpawnBullet
    \/ UpdateRocketStatus
    \/ ClipRockets
    \/ GravitationalPull
    \/ HandleBulletMovement

Spec == Init /\ [][Next]_vars


\* ------------------------------------------------------------ vocabulary
\* Every system of the chain has run for the current frame.
FrameEnd == pc = 0 /\ frame > 0

\* system `name` has run in the current frame.
HasRun(name) == \E i \in DOMAIN ran : ran[i] = name

\* The step in which system `name` runs.
StepOf(name) == pc \in DOMAIN Chain /\ Chain[pc] = name /\ pc' # pc

\* The three tests of the frame, decided on the translations they read.
SunTest(c) ==
    /\ c \in DOMAIN tested
    /\ LengthSquared(tested[c]) < (RadiusCollision + SunMargin) * (RadiusCollision + SunMargin)

PairTest ==
    /\ DOMAIN tested = {1, 2}
    /\ LengthSquared(<<tested[1][1] - tested[2][1], tested[1][2] - tested[2][2]>>)
         < RadiusCollision * RadiusCollision

Count(b) == IF b THEN 1 ELSE 0

\* -------------------------------------------------------------------- C1
\* C1: at the end of every frame the velocity of every craft has a magnitude
\* of at most max_speed, inside and outside the gravity cutoff.
C1_VelocityWithinMaxSpeed ==
    FrameEnd =>
        \A c \in alive \cap moved :
            LengthSquared(rockets[c].velocity)
                <= rockets[c].max_speed * rockets[c].max_speed

\* -------------------------------------------------------------------- C2
\* C2: after every call of handle_rocket_movement the scalar speed of the
\* craft lies in 0 .. max_speed.
C2_SpeedInRange ==
    HasRun("update_rocket_status") =>
        \A c \in moved :
            /\ 0 <= rockets[c].speed
            /\ rockets[c].speed <= rockets[c].max_speed

\* -------------------------------------------------------------------- C3
\* C3: after every call of handle_rocket_movement rotation_speed lies in
\* [-max_rotation_speed, max_rotation_speed], 70 degrees per second.
C3_RotationSpeedClamped ==
    \A c \in Craft :
        /\ -12217 <= rockets[c].rotation_speed
        /\ rockets[c].rotation_speed <= 12217

\* Both craft were moved in this frame and both are held at a limit, one at
\* each end.
C3_Witness ==
    /\ moved = {1, 2}
    /\ rockets[1].rotation_speed = 12217
    /\ rockets[2].rotation_speed = -12217

\* -------------------------------------------------------------------- C4
\* The vector a points from the position p toward the origin: no component
\* points away, it is not zero, and it is parallel to -p within the rounding
\* of the fixed point (less than 4 per component).
TowardOrigin(a, p) ==
    /\ a[1] * (0 - p[1]) >= 0
    /\ a[2] * (0 - p[2]) >= 0
    /\ a[1] * (0 - p[1]) + a[2] * (0 - p[2]) > 0
    /\ Abs(a[1] * p[2] - a[2] * p[1]) <= 4 * (Abs(p[1]) + Abs(p[2]))

\* C4: gravitational_pull leaves the velocity of a craft closer than 65 units
\* to the origin unchanged (zero acceleration); for a craft at 65 units or
\* more the acceleration points from the craft toward the origin.
C4_GravityCutoff ==
    [][ StepOf("gravitational_pull") =>
          \A c \in alive :
              IF LengthSquared(rockets[c].pos) < 650 * 650
              THEN /\ rockets'[c].velocity = rockets[c].velocity
                   /\ gravity'[c] = <<0, 0>>
              ELSE TowardOrigin(gravity'[c], rockets[c].pos) ]_vars

\* gravitational_pull has run with a thrusting craft inside the cutoff and a
\* craft outside that was accelerated.
C4_Witness ==
    /\ HasRun("gravitational_pull")
    /\ \E c \in alive :
        /\ LengthSquared(rockets[c].pos) < 650 * 650
        /\ rockets[c].velocity # <<0, 0>>
        /\ gravity[c] = <<0, 0>>
    /\ \E c \in alive : gravity[c] # <<0, 0>>

\* -------------------------------------------------------------------- C5
\* C5: the collision tests of a frame read the positions that the motion
\* integration of the same frame produced (detection runs after integration),
\* and the bullet hit test runs after the craft integration and before the
\* craft collision tests.  Stated on the positions: at the end of a frame
\* every craft still alive stands where the tests of that frame read it.
C5_DetectionAfterIntegration ==
    FrameEnd =>
        \A c \in DOMAIN tested : c \in alive => tested[c] = rockets[c].pos

\* -------------------------------------------------------------------- C6
\* C6: every live craft that is closer to the origin than radius_collision
\* plus 30 when update_rocket_status runs, also when it is the only craft
\* left, is despawned, and its sun test emits exactly one effect trigger,
\* carrying the position of that craft.  Stated for the frames in which the
\* system gets past its effect lookup (moved is then the set of live craft).
C6_SunCollisionDespawns ==
    HasRun("update_rocket_status") =>
        \A c \in moved :
            LengthSquared(start[c].pos)
                < (start[c].radius_collision + SunMargin)
                    * (start[c].radius_collision + SunMargin)
            => /\ c \in Range(cmds)
               /\ Cardinality({ i \in DOMAIN triggers :
                                  /\ triggers[i].line = (IF c = 1 THEN 299 ELSE 311)
                                  /\ triggers[i].pos = start[c].pos }) = 1

\* -------------------------------------------------------------------- C7
\* C7 as stated: when the craft-craft test is positive both craft are
\* despawned and exactly two effect triggers are emitted in the frame, one
\* carrying the position of each craft.
C7_PairTwoTriggers ==
    (HasRun("update_rocket_status") /\ PairTest) =>
        /\ {1, 2} \subseteq Range(cmds)
        /\ Len(triggers) = 2
        /\ triggers[1].pos = tested[1]
        /\ triggers[2].pos = tested[2]

\* C7 amended: when the craft-craft test is positive both craft are despawned
\* and the craft-craft branch emits exactly two effect triggers, the first
\* carrying the position of the first craft and the second that of the second
\* craft; they follow the one trigger of each positive sun test of the frame.
C7_PairTwoTriggersAfterSun ==
    (HasRun("update_rocket_status") /\ PairTest) =>
        LET n == Count(SunTest(1)) + Count(SunTest(2))
        IN  /\ {1, 2} \subseteq Range(cmds)
            /\ alive = {}
            /\ Len(triggers) = n + 2
            /\ triggers[n + 1] = [pos |-> tested[1], line |-> 322]
            /\ triggers[n + 2] = [pos |-> tested[2], line |-> 331]
            /\ \A i \in 1 .. n : triggers[i].line \in {299, 311}

\* The craft-craft test was positive in a frame in which a sun test was
\* positive too.
C7_Witness ==
    /\ HasRun("update_rocket_status")
    /\ PairTest
    /\ SunTest(1) \/ SunTest(2)
    /\ alive = {}

\* -------------------------------------------------------------------- C8
\* C8: over a frame the position of every craft changes by the final, clamped
\* velocity times the frame time: position is integrated once, after the
\* gravity contribution and the clamp.
C8_PositionIntegratedOnce ==
    FrameEnd =>
        \A c \in alive :
            /\ rockets[c].pos[1] - start[c].pos[1] = rockets[c].velocity[1] * dt
            /\ rockets[c].pos[2] - start[c].pos[2] = rockets[c].velocity[2] * dt

\* -------------------------------------------------------------------- C9
\* C9: the collisions detected in one frame are acted on independently: each
\* positive sun test despawns its craft and emits one trigger, a positive
\* craft-craft test despawns both craft and emits two, and the number of
\* triggers of the frame is the sum over the positive tests.
C9_CollisionsIndependent ==
    HasRun("update_rocket_status") =>
        /\ Len(triggers) = Count(SunTest(1)) + Count(SunTest(2)) + 2 * Count(PairTest)
        /\ \A c \in Craft :
              c \in Range(cmds) <=> (SunTest(c) \/ PairTest)
        /\ \A c \in Craft :
              SunTest(c) =>
                  \E i \in DOMAIN triggers :
                      triggers[i] = [pos |-> tested[c], line |-> IF c = 1 THEN 299 ELSE 311]

\* Two tests were positive in the same frame.
C9_Witness ==
    /\ HasRun("update_rocket_status")
    /\ Count(SunTest(1)) + Count(SunTest(2)) + Count(PairTest) >= 2
    /\ Len(triggers) >= 3

\* ------------------------------------------------------------------- C10
\* C10: in one run of update_rocket_status no craft is issued more than one
\* despawn command, and a craft that was issued one is not moved by
\* handle_rocket_movement later in the same run.
C10_DespawnOnceAndNotMoved ==
    HasRun("update_rocket_status") =>
        /\ \A i, j \in DOMAIN cmds : cmds[i] = cmds[j] => i = j
        /\ Range(cmds) \cap moved = {}

=============================================================================
